---- MODULE Spec2Model ----
(***************************************************************************)
(* pragma-web, helpers/new_post.py ("pragma-new"): one run of the post     *)
(* scaffolding script, as a state machine over the working directory, the  *)
(* sibling ../img/ directory, the dictionary files, the wall clock and the *)
(* operator's terminal.  Strings are sequences of one-character strings,   *)
(* times are counted in ticks of 1/TicksPerSec seconds.                    *)
(***************************************************************************)
EXTENDS Integers, Sequences, FiniteSets, TLC

VARIABLES
  pc,          \* position of the script
  argv,        \* sys.argv[1:], a sequence of argument strings
  clock,       \* the wall clock, in ticks
  now,         \* the module-level variable now, in ticks
  dict,        \* the three dictionary paths: what is on disk at each
  files,       \* working directory: file name -> contents
  img,         \* the directory ../img/: whether it exists, is writable, its entries
  suggested,   \* suggested_filename
  selected,    \* selected_words of the attempt that produced suggested
  genKind,     \* how generate_filename ended: "words", "timestamp", "raised"
  fallbackAt,  \* the clock value generate_filename read for its fallback name
  fn,          \* fn, the accepted file name
  user_input,  \* user_input of get_user_filename
  promptedFor, \* the name the overwrite prompt was shown for (<<>>: not shown)
  answer,      \* the operator's reply to the overwrite prompt, as typed
  replaced,    \* the contents open(fn, 'w') truncated (Nothing: none)
  launch,      \* program -> "no", "nostart", or how it ran: "ok", "failed"
  exitStatus,  \* the process's exit status, once pc is terminal
  files0,      \* the working directory when the run began
  img0         \* ../img/ when the run began

vars == <<pc, argv, clock, now, dict, files, img, suggested, selected, genKind,
          fallbackAt, fn, user_input, promptedFor, answer, replaced, launch,
          exitStatus, files0, img0>>

-----------------------------------------------------------------------------
(* Bounds of the model *)

\* ticks per second: the resolution at which float times are kept
TicksPerSec == 2
\* most ticks that pass between two readings of the clock
MaxElapsed == 1
\* random.sample draws its positions among the first MaxSamplePos words
MaxSamplePos == 3
\* most files the external writer creates during one run
MaxExt == 1

-----------------------------------------------------------------------------
(* Strings *)

LowerLetters ==
  <<"a","b","c","d","e","f","g","h","i","j","k","l","m",
    "n","o","p","q","r","s","t","u","v","w","x","y","z">>

UpperLetters ==
  <<"A","B","C","D","E","F","G","H","I","J","K","L","M",
    "N","O","P","Q","R","S","T","U","V","W","X","Y","Z">>

Digits == <<"0","1","2","3","4","5","6","7","8","9">>

Whitespace == {" ", "\t", "\n"}

Range(s) == {s[i] : i \in 1..Len(s)}

IsLowerChar(c) == c \in Range(LowerLetters)
IsUpperChar(c) == c \in Range(UpperLetters)

\* str.lower()
LowerChar(c) ==
  IF IsUpperChar(c)
    THEN LowerLetters[CHOOSE i \in 1..Len(UpperLetters) : UpperLetters[i] = c]
    ELSE c

Lower(s) == [i \in 1..Len(s) |-> LowerChar(s[i])]

RECURSIVE LStrip(_)
LStrip(s) == IF s # <<>> /\ Head(s) \in Whitespace THEN LStrip(Tail(s)) ELSE s

RECURSIVE RStrip(_)
RStrip(s) ==
  IF s # <<>> /\ s[Len(s)] \in Whitespace
    THEN RStrip(SubSeq(s, 1, Len(s) - 1))
    ELSE s

\* str.strip()
Strip(s) == RStrip(LStrip(s))

\* str.isalpha(): non-empty and letters only
IsAlpha(s) ==
  /\ s # <<>>
  /\ \A i \in 1..Len(s) : IsLowerChar(s[i]) \/ IsUpperChar(s[i])

\* str.islower(): at least one cased character and no uppercase one
IsLower(s) ==
  /\ \E i \in 1..Len(s) : IsLowerChar(s[i])
  /\ \A i \in 1..Len(s) : ~IsUpperChar(s[i])

\* str.endswith(suffix)
EndsWith(s, suffix) ==
  /\ Len(s) >= Len(suffix)
  /\ SubSeq(s, Len(s) - Len(suffix) + 1, Len(s)) = suffix

TXT == <<".","t","x","t">>

\* sep.join(parts)
RECURSIVE Join(_, _)
Join(sep, parts) ==
  IF parts = <<>> THEN <<>>
  ELSE IF Len(parts) = 1 THEN parts[1]
  ELSE parts[1] \o sep \o Join(sep, Tail(parts))

\* str(n) of a non-negative integer
RECURSIVE DecStr(_)
DecStr(n) ==
  IF n < 10 THEN <<Digits[n + 1]>>
  ELSE DecStr(n \div 10) \o <<Digits[(n % 10) + 1]>>

\* int(t) of a non-negative float time kept in ticks
IntSeconds(t) == t \div TicksPerSec

-----------------------------------------------------------------------------
(* load_dictionary_words *)

\* a line of a text file, as iteration over the file yields it
Line(s) == s \o <<"\n">>

MinWordLen == 3
MaxWordLen == 8

\* the filter of the list comprehension
Qualifies(line) ==
  /\ MinWordLen <= Len(Strip(line))
  /\ Len(Strip(line)) <= MaxWordLen
  /\ IsAlpha(Strip(line))
  /\ IsLower(Strip(line))

\* [line.strip().lower() for line in f if ...]
FilterWords(lines) ==
  LET kept == SelectSeq(lines, Qualifies)
  IN  [i \in 1..Len(kept) |-> Lower(Strip(kept[i]))]

\* what is at one dictionary path
Absent == [state |-> "absent", lines |-> <<>>]
Unreadable == [state |-> "unreadable", lines |-> <<>>]
Readable(lines) == [state |-> "readable", lines |-> lines]

\* the loop over dictionary_paths: the first path that exists and opens
\* decides words (even when nothing qualifies); a path that exists but
\* cannot be read is skipped
RECURSIVE ReadFirst(_, _)
ReadFirst(d, i) ==
  IF i > Len(d) THEN <<>>
  ELSE IF d[i].state = "absent" THEN ReadFirst(d, i + 1)
  ELSE IF d[i].state = "unreadable" THEN ReadFirst(d, i + 1)
  ELSE FilterWords(d[i].lines)

BuiltinWords ==
    << <<"a","p","p","l","e">>,
       <<"b","r","a","v","e">>,
       <<"c","l","o","u","d">>,
       <<"d","r","e","a","m">>,
       <<"e","a","r","t","h">>,
       <<"f","l","a","m","e">>,
       <<"g","r","e","e","n">>,
       <<"h","a","p","p","y">>,
       <<"i","d","e","a">>,
       <<"j","u","m","p">>,
       <<"k","i","n","d">>,
       <<"l","i","g","h","t">>,
       <<"m","a","g","i","c">>,
       <<"n","o","r","t","h">>,
       <<"o","c","e","a","n">>,
       <<"p","e","a","c","e">>,
       <<"q","u","i","c","k">>,
       <<"r","i","v","e","r">>,
       <<"s","m","i","l","e">>,
       <<"t","r","e","e">>,
       <<"u","n","d","e","r">>,
       <<"v","o","i","c","e">>,
       <<"w","a","t","e","r">>,
       <<"y","o","u","n","g">>,
       <<"d","a","n","c","e">>,
       <<"b","r","i","g","h","t">>,
       <<"s","w","i","f","t">>,
       <<"g","e","n","t","l","e">>,
       <<"s","t","r","o","n","g">>,
       <<"q","u","i","e","t">>,
       <<"w","a","r","m">>,
       <<"f","r","e","s","h">> >>

load_dictionary_words(d) ==
  LET words == ReadFirst(d, 1)
  IN  IF words = <<>> THEN BuiltinWords ELSE words

-----------------------------------------------------------------------------
(* generate_filename *)

max_attempts == 3
SampleSize == 3

Min(a, b) == IF a < b THEN a ELSE b

\* random.sample(words, 3): 3 different positions of the list, in any order.
\* Python raises ValueError when the list has fewer than 3 entries.
SampleRaises(words) == Len(words) < SampleSize

random_sample(words) ==
  LET pos == 1..Min(Len(words), MaxSamplePos)
      picks == {p \in [1..SampleSize -> pos] :
                  \A i, j \in 1..SampleSize : i # j => p[i] # p[j]}
  IN  {[i \in 1..SampleSize |-> words[p[i]]] : p \in picks}

\* "_".join(selected_words) + ".txt"
WordName(selected_words) == Join(<<"_">>, selected_words) \o TXT

\* str(int(time.time())) + ".txt"
TimestampName(t) == DecStr(IntSeconds(t)) \o TXT

\* os.path.exists(name), for a name in the working directory
Exists(fs, name) == name \in DOMAIN fs

\* the for loop from attempt k on: every way it can end, over the draws of
\* random.sample.  An attempt returns its name when no such file exists and
\* goes on to the next attempt otherwise; after max_attempts collisions the
\* function falls back to the timestamp.
RECURSIVE Attempts(_, _, _)
Attempts(words, fs, k) ==
  IF k > max_attempts
    THEN {[kind |-> "timestamp", selected_words |-> <<>>]}
    ELSE LET drawn == random_sample(words)
         IN  {[kind |-> "words", selected_words |-> s] :
                 s \in {t \in drawn : ~Exists(fs, WordName(t))}}
             \cup (IF \E t \in drawn : Exists(fs, WordName(t))
                     THEN Attempts(words, fs, k + 1)
                     ELSE {})

-----------------------------------------------------------------------------
(* Time and the command line *)

\* the wall clock when the run begins: 120 s after the epoch
StartClock == 120 * TicksPerSec

\* ' '.join(str(a) for a in args[1:])
JoinArgs(args) == Join(<<" ">>, [i \in 1..Len(args) |-> <<args[i]>>])

ArgEarlier == <<"January", "1", "1970", "00:01">>
ArgSameMinute == <<"January", "1", "1970", "00:02">>
ArgBadMonth == <<"Janury", "1", "1970", "00:01">>
ArgNoTime == <<"January", "1", "1970">>
ArgYearOne == <<"January", "1", "0001", "00:00">>

\* datetime.strptime(s, '%B %d %Y %H:%M') and dt.timestamp(), in a UTC
\* locale, on the date strings of the model: the epoch seconds of a string
\* that matches the format, and whether timestamp() can represent them.
\* A string that does not match makes strptime raise ValueError.
strptime(s) ==
  IF s = JoinArgs(ArgEarlier)
    THEN [matches |-> TRUE, representable |-> TRUE, seconds |-> 60]
  ELSE IF s = JoinArgs(ArgSameMinute)
    THEN [matches |-> TRUE, representable |-> TRUE, seconds |-> 120]
  ELSE IF s = JoinArgs(ArgYearOne)
    THEN [matches |-> TRUE, representable |-> FALSE, seconds |-> 0]
  ELSE [matches |-> FALSE, representable |-> FALSE, seconds |-> 0]

Argvs == {<<>>, ArgEarlier, ArgSameMinute, ArgBadMonth, ArgNoTime, ArgYearOne}

-----------------------------------------------------------------------------
(* The file system and the terminal *)

\* contents of a file
Nothing == [kind |-> "nothing", date |-> 0]
ExistingPost == [kind |-> "existing", date |-> 0]
ExternalFile == [kind |-> "external", date |-> 0]
\* the text written at lines 114-123: the fixed header with date:str(now)
Template(t) == [kind |-> "template", date |-> t]

\* files with name bound to contents
WithFile(fs, name, contents) ==
  [x \in DOMAIN fs \cup {name} |-> IF x = name THEN contents ELSE fs[x]]

Notes == <<"n","o","t","e","s">>

\* what the operator may type at the file name prompt
UserInputs ==
  { <<>>, <<" ">>, Notes, Notes \o TXT, <<" ">> \o Notes \o <<"\t">> }

\* what the operator may type at the overwrite prompt
Answers ==
  { <<"y">>, <<"Y">>, <<" ", "y">>, <<>>, <<"n">>, <<"N">>, <<"y","e","s">> }

\* dictionary files the model starts from
Cat == <<"c","a","t">>
Dog == <<"d","o","g">>
Owl == <<"o","w","l">>
Elk == <<"e","l","k">>

DictContents ==
  { <<>>,
    << Line(<<"o","x">>), Line(<<"C","a","t">>), Line(<<"i","t","'","s">>),
       Line(<<"w","o","n","d","e","r","f","u","l">>) >>,
    << Line(Cat) >>,
    << Line(Cat), Line(Dog) >>,
    << Line(Cat), Line(Dog), Line(Owl) >>,
    << Line(Cat), Line(Cat \o <<" ">>), Line(Dog), Line(Elk) >>,
    << Line(<<"C","a","t">>), Line(Owl), Line(<<"o","x">>), Line(Dog), Line(Elk) >> }

Dicts ==
  { <<Absent, Absent, Absent>>,
    <<Unreadable, Absent, Absent>>,
    <<Unreadable, Readable(<<Line(Cat), Line(Dog), Line(Owl)>>), Absent>>,
    <<Absent, Absent, Readable(<<Line(Cat), Line(Dog), Line(Owl)>>)>> }
  \cup { <<Readable(c), Absent, Readable(<<Line(Elk), Line(Dog), Line(Owl)>>)>> :
           c \in DictContents }

\* the working directories the model starts from, given the word list:
\* with or without notes.txt, with or without files named after the seconds
\* around the start, and with none, some or all of the word names taken
AllWordNames(words) ==
  IF SampleRaises(words) THEN {} ELSE {WordName(s) : s \in random_sample(words)}

SomeWordNames(words) ==
  {n \in AllWordNames(words) : SubSeq(n, 1, Len(words[1])) = words[1]}

TimestampNames ==
  {TimestampName(StartClock + d) : d \in 0..(2 * MaxElapsed)}

InitialNames(words) ==
  { u \cup t \cup w :
      u \in {{}, {Notes \o TXT}},
      t \in {{}, TimestampNames},
      w \in {{}, SomeWordNames(words), AllWordNames(words)} }

NoEntries == [b \in {} |-> {}]

\* ../img/ at the start: missing, read-only, empty, or already holding a
\* directory notes with a picture in it
ImgStates ==
  { [exists |-> FALSE, writable |-> FALSE, entries |-> NoEntries],
    [exists |-> TRUE, writable |-> FALSE, entries |-> NoEntries],
    [exists |-> TRUE, writable |-> TRUE, entries |-> NoEntries],
    [exists |-> TRUE, writable |-> TRUE, entries |-> [b \in {Notes} |-> {"photo.jpg"}]] }

Programs == {"mkdir", "open", "vim"}

-----------------------------------------------------------------------------
(* The run *)

Init ==
  /\ pc = "resolve"
  /\ argv \in Argvs
  /\ clock = StartClock
  /\ now = 0
  /\ dict \in Dicts
  /\ \E names \in InitialNames(load_dictionary_words(dict)) :
       files = [n \in names |-> ExistingPost]
  /\ img \in ImgStates
  /\ suggested = <<>>
  /\ selected = <<>>
  /\ genKind = "none"
  /\ fallbackAt = 0
  /\ fn = <<>>
  /\ user_input = <<>>
  /\ promptedFor = <<>>
  /\ answer = <<>>
  /\ replaced = Nothing
  /\ launch = [p \in Programs |-> "no"]
  /\ exitStatus = 0
  /\ files0 = files
  /\ img0 = img

Terminal == {"done", "exited", "raised"}

\* the process ends: status 0 at the end of the script and on exit(), the
\* given status on sys.exit(status), 1 on an uncaught exception
Ends(how, status) ==
  /\ pc' = how
  /\ exitStatus' = status

\* lines 94-108: now = time.time(), replaced by the parsed date when
\* arguments are given.  strptime is outside the try: its ValueError is
\* not caught.  A ValueError of dt.timestamp() is caught and ends in exit().
\* variant: strptime inside the try, its ValueError caught like timestamp()'s
ParseFailureCaught(args) == FALSE

ParseFails(args) == ~strptime(Strip(JoinArgs(args))).matches

ResolveNow ==
  /\ pc = "resolve"
  /\ IF Len(argv) > 0
       THEN LET dt == strptime(Strip(JoinArgs(argv)))
            IN  IF ParseFails(argv)
                  THEN Ends("raised", 1) /\ now' = clock
                ELSE IF ~dt.representable
                  THEN Ends("exited", 0) /\ now' = clock
                ELSE /\ now' = dt.seconds * TicksPerSec
                     /\ pc' = "generate"
                     /\ UNCHANGED exitStatus
       ELSE /\ now' = clock
            /\ pc' = "generate"
            /\ UNCHANGED exitStatus
  /\ UNCHANGED <<argv, clock, dict, files, img, suggested, selected, genKind,
                 fallbackAt, fn, user_input, promptedFor, answer, replaced,
                 launch, files0, img0>>

\* variant: the fallback named after the module's now
FallbackTimeResolved(clockRead, resolved) == resolved

\* the time generate_filename names its fallback after (line 70)
FallbackTime(clockRead, resolved) == clockRead

\* line 111 and lines 55-70: suggested_filename = generate_filename()
GenerateFilename ==
  /\ pc = "generate"
  /\ LET words == load_dictionary_words(dict)
     IN  IF SampleRaises(words)
           THEN /\ Ends("raised", 1)
                /\ genKind' = "raised"
                /\ UNCHANGED <<clock, suggested, selected, fallbackAt>>
           ELSE \E r \in Attempts(words, files, 1) :
                  /\ genKind' = r.kind
                  /\ selected' = r.selected_words
                  /\ IF r.kind = "words"
                       THEN /\ suggested' = WordName(r.selected_words)
                            /\ UNCHANGED <<clock, fallbackAt>>
                       ELSE \E passed \in 0..MaxElapsed :
                              /\ clock' = clock + passed
                              /\ fallbackAt' = clock'
                              /\ suggested' = TimestampName(FallbackTime(clock', now))
                  /\ pc' = "ask"
                  /\ UNCHANGED exitStatus
  /\ UNCHANGED <<argv, now, dict, files, img, fn, user_input, promptedFor,
                 answer, replaced, launch, files0, img0>>

\* lines 80-82: the name typed, with .txt appended when it is missing
EnsureTxt(name) == IF EndsWith(name, TXT) THEN name ELSE name \o TXT

\* line 112 and lines 74-86: the file name prompt, up to the existence check
AskFilename ==
  /\ pc = "ask"
  /\ \E line \in UserInputs :
       IF Strip(line) = <<>>
         THEN /\ fn' = suggested
              /\ pc' = "write"
              /\ UNCHANGED <<user_input, promptedFor>>
         ELSE /\ user_input' = EnsureTxt(Strip(line))
              /\ IF Exists(files, user_input')
                   THEN /\ promptedFor' = user_input'
                        /\ pc' = "confirm"
                        /\ UNCHANGED fn
                   ELSE /\ fn' = user_input'
                        /\ pc' = "write"
                        /\ UNCHANGED promptedFor
  /\ UNCHANGED <<argv, clock, now, dict, files, img, suggested, selected,
                 genKind, fallbackAt, answer, replaced, launch, exitStatus,
                 files0, img0>>

\* variant: only an explicit n declines
DeclinesOnlyNo(reply) == Lower(Strip(reply)) = <<"n">>

\* lines 87-88: input(...).strip().lower() compared with 'y'
Declines(reply) == Lower(Strip(reply)) # <<"y">>

\* lines 87-92: the overwrite prompt
AnswerOverwrite ==
  /\ pc = "confirm"
  /\ \E reply \in Answers :
       /\ answer' = reply
       /\ IF Declines(reply)
            THEN Ends("exited", 1) /\ UNCHANGED fn
            ELSE /\ fn' = user_input
                 /\ pc' = "write"
                 /\ UNCHANGED exitStatus
  /\ UNCHANGED <<argv, clock, now, dict, files, img, suggested, selected,
                 genKind, fallbackAt, user_input, promptedFor, replaced,
                 launch, files0, img0>>

\* variant: open(fn, 'x'), which leaves an existing file alone
OpenExclusive(fs, name, contents) ==
  IF Exists(fs, name) THEN fs ELSE WithFile(fs, name, contents)

\* open(fn, 'w'): creates the file, or truncates the one that is there
OpenForWriting(fs, name, contents) == WithFile(fs, name, contents)

\* lines 114-123: print(output, file=open(fn, 'w'))
WritePost ==
  /\ pc = "write"
  /\ replaced' = IF Exists(files, fn) THEN files[fn] ELSE Nothing
  /\ files' = OpenForWriting(files, fn, Template(now))
  /\ pc' = "mkdir"
  /\ UNCHANGED <<argv, clock, now, dict, img, suggested, selected, genKind,
                 fallbackAt, fn, user_input, promptedFor, answer, launch,
                 exitStatus, files0, img0>>

\* line 126
base_name(name) ==
  IF EndsWith(name, TXT) THEN SubSeq(name, 1, Len(name) - Len(TXT)) ELSE name

\* mkdir ../img/<base>: fails when ../img/ is missing or not writable or
\* the directory is already there
MkdirSucceeds(d, base) ==
  /\ d.exists
  /\ d.writable
  /\ base \notin DOMAIN d.entries

WithDir(d, base) ==
  [d EXCEPT !.entries =
     [b \in DOMAIN d.entries \cup {base} |->
        IF b = base THEN {} ELSE d.entries[b]]]

\* subprocess.run([...]) without check=True: a non-zero return code is
\* ignored and the script goes on; a program that cannot be started makes
\* subprocess.run raise (FileNotFoundError), which nothing catches
AfterRun(started, next) ==
  IF started
    THEN pc' = next /\ (IF next = "done" THEN exitStatus' = 0 ELSE UNCHANGED exitStatus)
    ELSE Ends("raised", 1)

\* line 135: subprocess.run(["mkdir", image_dir])
Mkdir ==
  /\ pc = "mkdir"
  /\ \E started \in BOOLEAN :
       /\ AfterRun(started, "open")
       /\ IF started /\ MkdirSucceeds(img, base_name(fn))
            THEN /\ img' = WithDir(img, base_name(fn))
                 /\ launch' = [launch EXCEPT !["mkdir"] = "ok"]
            ELSE /\ UNCHANGED img
                 /\ launch' = [launch EXCEPT !["mkdir"] =
                                 IF started THEN "failed" ELSE "nostart"]
  /\ UNCHANGED <<argv, clock, now, dict, files, suggested, selected, genKind,
                 fallbackAt, fn, user_input, promptedFor, answer, replaced,
                 files0, img0>>

\* line 136: subprocess.run(["open", image_dir])
OpenViewer ==
  /\ pc = "open"
  /\ \E started \in BOOLEAN :
       /\ AfterRun(started, "vim")
       /\ launch' = [launch EXCEPT !["open"] =
                       IF ~started THEN "nostart"
                       ELSE IF base_name(fn) \in DOMAIN img.entries THEN "ok"
                       ELSE "failed"]
  /\ UNCHANGED <<argv, clock, now, dict, files, img, suggested, selected,
                 genKind, fallbackAt, fn, user_input, promptedFor, answer,
                 replaced, files0, img0>>

\* line 137: subprocess.run(["vim", fn])
Editor ==
  /\ pc = "vim"
  /\ \E started \in BOOLEAN :
       /\ AfterRun(started, "done")
       /\ launch' = [launch EXCEPT !["vim"] = IF started THEN "ok" ELSE "nostart"]
  /\ UNCHANGED <<argv, clock, now, dict, files, img, suggested, selected,
                 genKind, fallbackAt, fn, user_input, promptedFor, answer,
                 replaced, files0, img0>>

Next ==
  \/ ResolveNow
  \/ GenerateFilename
  \/ AskFilename
  \/ AnswerOverwrite
  \/ WritePost
  \/ Mkdir
  \/ OpenViewer
  \/ Editor

Spec == Init /\ [][Next]_vars

-----------------------------------------------------------------------------
(* A second process writing to the working directory during the run *)

\* files the external writer has created so far
ExternalCount ==
  Cardinality({n \in DOMAIN files : files[n].kind = "external"})
    + (IF replaced.kind = "external" THEN 1 ELSE 0)

\* another process creates a file the run has not seen: under the name the
\* run is about to use, or under the name the operator may type
ExternalCreate ==
  /\ pc \notin Terminal
  /\ ExternalCount < MaxExt
  /\ \E name \in ({suggested, fn, Notes \o TXT} \ {<<>>}) :
       /\ ~Exists(files, name)
       /\ files' = WithFile(files, name, ExternalFile)
  /\ UNCHANGED <<pc, argv, clock, now, dict, img, suggested, selected, genKind,
                 fallbackAt, fn, user_input, promptedFor, answer, replaced,
                 launch, exitStatus, files0, img0>>

\* the runs the race is studied on: no date argument, ../img/ in order
InitRace ==
  /\ Init
  /\ argv = <<>>
  /\ img.exists /\ img.writable

NextRace ==
  \/ Next
  \/ ExternalCreate

SpecRace == InitRace /\ [][NextRace]_vars

-----------------------------------------------------------------------------
(* Properties *)

\* the run has passed line 123: the post file was opened for writing
Written ==
  \/ pc \in {"mkdir", "open", "vim", "done"}
  \/ pc = "raised" /\ \E p \in Programs : launch[p] = "nostart"

\* the overwrite prompt was shown and the operator has replied
Answered == promptedFor # <<>> /\ pc # "confirm"

\* nothing on disk differs from the start of the run
FilesystemUnchanged == files = files0 /\ img = img0


Yes == {<<"y">>, <<"Y">>}

\* C1: a file that already exists is opened for writing only after the
\* overwrite prompt was shown for that exact name and answered y/Y, on
\* every path to the write (typed name, accepted suggestion, timestamp
\* fallback).
C1_NoSilentOverwrite ==
  (Written /\ replaced # Nothing) => (promptedFor = fn /\ answer \in Yes)

\* C2, as stated: when the overwrite prompt is answered with anything other
\* than y/Y, the process exits non-zero and the filesystem is unchanged.
C2_AnythingButYAborts ==
  (Answered /\ answer \notin Yes) =>
     (pc = "exited" /\ exitStatus # 0 /\ FilesystemUnchanged)

\* C2, amended: when the overwrite prompt is answered with anything that is
\* not y/Y once surrounding whitespace is removed, the process exits
\* non-zero and the filesystem is unchanged.
C2_DeclineAborts ==
  (Answered /\ Lower(Strip(answer)) # <<"y">>) =>
     (pc = "exited" /\ exitStatus # 0 /\ FilesystemUnchanged)

\* a run where the name typed exists and the operator just pressed Enter
\* at the overwrite prompt
C2_Witness ==
  /\ Answered
  /\ promptedFor = Notes \o TXT
  /\ answer = <<>>
  /\ pc = "exited"

\* C3: when arguments are given and the joined string does not match the
\* format, the run terminates before the filename prompt, the write and the
\* directory creation: nothing is created and the exit status is non-zero.
C3_BadDateAborts ==
  (Len(argv) > 0 /\ ~strptime(Strip(JoinArgs(argv))).matches /\ pc # "resolve") =>
     /\ pc = "raised"
     /\ exitStatus # 0
     /\ FilesystemUnchanged
     /\ suggested = <<>> /\ fn = <<>> /\ promptedFor = <<>>
     /\ \A p \in Programs : launch[p] = "no"

\* a run given a misspelt month has ended
C3_Witness == argv = ArgBadMonth /\ pc = "raised" /\ exitStatus = 1

\* C4: generate_filename never fails and returns a name ending in .txt,
\* for every content of the dictionary sources and of the directory.
C4_GenerateNeverFails ==
  /\ genKind # "raised"
  /\ genKind # "none" => EndsWith(suggested, TXT)

C6_ImageDirEmpty ==
  pc = "done" =>
     /\ base_name(fn) \in DOMAIN img.entries
     /\ img.entries[base_name(fn)] = {}

\* C7: when the image directory cannot be created, the run ends at that
\* step as a fatal error: viewer and editor are not launched, the run is
\* not a success, the post file stays on disk.
C7_MkdirFailureIsFatal ==
  launch["mkdir"] = "failed" =>
     /\ pc \in Terminal /\ pc # "done" /\ exitStatus # 0
     /\ launch["open"] = "no" /\ launch["vim"] = "no"
     /\ Exists(files, fn)

\* C8: when the viewer or the editor fails to start, the other launch
\* step is still performed, the run completes, and the post file and the
\* image directory stay in place.
C8_LaunchFailureNotFatal ==
  \A p \in {"open", "vim"} :
     (launch[p] = "nostart" /\ launch["mkdir"] = "ok") =>
        /\ pc \in Terminal => pc = "done" /\ exitStatus = 0
        /\ pc \in Terminal => \A q \in {"open", "vim"} : launch[q] # "no"
        /\ Exists(files, fn)
        /\ base_name(fn) \in DOMAIN img.entries

\* C9: every word-based file name is built from 3 pairwise distinct words.
C9_DistinctWords ==
  genKind = "words" =>
     /\ Len(selected) = SampleSize
     /\ \A i, j \in 1..Len(selected) : i # j => selected[i] # selected[j]

\* C10: the existence checks and the write are not atomic.  Once the checks
\* have passed the run writes its template under fn without looking again:
\* after line 123 the name holds the template, whatever another process put
\* there in between.
C10_WriteAfterCheckAlwaysWins ==
  Written => (Exists(files, fn) /\ files[fn] = Template(now))

\* a file of the chosen name was created by the other process after the
\* check had found the name free, and the run overwrote it without asking
C10_Witness ==
  /\ Written
  /\ replaced = ExternalFile
  /\ promptedFor = <<>>
  /\ \/ genKind = "words" /\ fn = suggested
     \/ fn = user_input

====
